---- MODULE Spec2Model ----
(***************************************************************************)
(* Hosting control-panel backend (Express handlers over a PostgreSQL       *)
(* store and an upload directory).  Each request handler is modelled as a  *)
(* sequence of atomic steps, one per awaited store or filesystem call, so  *)
(* that concurrent requests interleave exactly where the Node.js event     *)
(* loop lets them.                                                         *)
(***************************************************************************)
EXTENDS Integers, Sequences, FiniteSets, TLC

\* ------------------------------------------------------------------ bounds
MaxFiles == 2        \* File rows ever inserted (ids 1..MaxFiles)
MaxDomains == 3      \* Domain rows ever inserted (ids 1..MaxDomains)
MaxEvents == 4       \* AnalyticsEvent rows ever inserted
MaxAccountEvents == 1 \* of them, where accounts are deleted
MaxTicks == 3        \* half-days that pass while events are logged
MaxNames == 3        \* stored names the generator can hand to one user
MaxDownloads == 1    \* downloads a request may start on one file
MaxVerifies == 2     \* verifications that write (ticks of the store's clock)

\* ------------------------------------------------------- program constants
DEFAULT_STORAGE_QUOTA == 1073741824
DEFAULT_DOMAIN_QUOTA == 2
DEFAULT_MAX_FILE_SIZE == 52428800
\* process.env.MAX_FILE_SIZE of the deployment (0: not set)
ENV_MAX_FILE_SIZE == 1073741824

Users == {"u1", "u2"}
\* request slots: two, the least number that lets requests overlap
Req == {1, 2}
FileIds == 1..MaxFiles
DomainIds == 1..MaxDomains
EventIds == 1..MaxEvents
\* one Website row: no handler inserts into websites
WebsiteIds == {1}
Suffixes == 1..MaxNames
DomainNames == {"a.com", "b.com", "c.com"}
\* sizes of the uploaded files, in bytes
Sizes == {1, 10, 600000000}
\* a table slot whose id was never used, and one whose row was deleted (UUIDs are not reused)
NoRow == [state |-> "none"]
Gone == [state |-> "deleted"]

\* --------------------------------------------------- driver and JS values
\* node-postgres hands BIGINT and NUMERIC columns (storage_quota, SUM(file_size),
\* COUNT(*)) to the handler as decimal text; a text is a sequence of digits.
RECURSIVE PgText(_)
PgText(n) == IF n < 10 THEN <<n>> ELSE Append(PgText(n \div 10), n % 10)

\* JS String(n) of a number (req.file.size)
JsString(n) == PgText(n)

\* JS a + b with a string operand: concatenation
JsPlus(a, b) == a \o b

\* JS a > b on two strings: comparison by code units, a proper prefix is smaller
RECURSIVE JsStrGreater(_, _)
JsStrGreater(a, b) ==
    IF a = <<>> THEN FALSE
    ELSE IF b = <<>> THEN TRUE
    ELSE IF Head(a) # Head(b) THEN Head(a) > Head(b)
    ELSE JsStrGreater(Tail(a), Tail(b))

\* numeric value order on decimal texts without leading zeros
NumGreater(a, b) ==
    \/ Len(a) > Len(b)
    \/ Len(a) = Len(b) /\ JsStrGreater(a, b)

\* a JSONB column or a JS property: SQL NULL is the empty tuple, a value v is <<v>>,
\* and a property the object does not have is undefined
SqlNull == <<>>
JsUndefined == <<"undefined", "undefined">>

\* a result row of SELECT cols FROM ...: only the selected columns
SelectColumns(row, cols) == [c \in cols \cap DOMAIN row |-> row[c]]

\* obj.f
JsField(obj, f) == IF f \in DOMAIN obj THEN obj[f] ELSE JsUndefined

\* parseInt(process.env.MAX_FILE_SIZE) || 50 * 1024 * 1024
FileSizeLimit == IF ENV_MAX_FILE_SIZE # 0 THEN ENV_MAX_FILE_SIZE ELSE DEFAULT_MAX_FILE_SIZE

VARIABLES
    users,      \* users table: id -> row or NoRow
    domains,    \* domains table: id -> row or NoRow
    files,      \* files table: id -> row or NoRow
    analytics,  \* analytics table: id -> row or NoRow
    websites,   \* websites table: id -> row or NoRow
    disk,       \* paths present in the upload directory
    req,        \* request slots: the handler invocation running in each
    mode,       \* "serial": a request starts only when none is in flight
    clock       \* CURRENT_TIMESTAMP of the store, in ticks; 0 stands for NULL

vars == <<users, domains, files, analytics, websites, disk, req, mode, clock>>

\* ------------------------------------------------------------ table reads
Live(table, id) == table[id].state = "live"
Unused(table, ids) == {i \in ids : table[i].state = "none"}
\* the id the next INSERT receives (gen_random_uuid(): never one used before)
NewId(table, ids) == CHOOSE i \in Unused(table, ids) : \A j \in Unused(table, ids) : i <= j

RECURSIVE SumSizes(_, _, _)
SumSizes(table, u, n) ==
    IF n = 0 THEN 0
    ELSE SumSizes(table, u, n - 1)
         + (IF Live(table, n) /\ table[n].user_id = u THEN table[n].file_size ELSE 0)

\* SELECT COALESCE(SUM(file_size), 0) FROM files WHERE user_id = u
StorageUsed(u) == SumSizes(files, u, MaxFiles)

\* SELECT COUNT(*) FROM domains WHERE user_id = u
DomainCount(u) == Cardinality({d \in DomainIds : Live(domains, d) /\ domains[d].user_id = u})

\* ------------------------------------------------------------ request slots
\* cur: what the request's quota query read; secret: the password hash it read;
\* wrote: its INSERT, UPDATE or DELETE touched a row; dns: dnsRecords of its response;
\* records: instructions.records of its response; report: the storage figures of its
\* response
Idle == [kind |-> "idle", user |-> "none", pc |-> "idle", id |-> 0, size |-> 0,
         flag |-> "absent", name |-> "none", path |-> <<>>, cur |-> 0,
         secret |-> "none", dns |-> JsUndefined, records |-> <<>>, mime |-> "none",
         report |-> <<>>, wrote |-> FALSE,
         status |-> 0,
         error |-> "none"]

InFlight(r) == req[r].pc \notin {"idle", "done"}

\* a request enters a free slot; in serial mode only when no request is in flight
CanStart(r) ==
    /\ req[r] = Idle
    /\ mode = "serial" => \A q \in Req : ~InFlight(q)

\* res.status(code).json({ error: msg }) and the end of the handler
Respond(r, code, msg) ==
    [Idle EXCEPT !.kind = req[r].kind, !.user = req[r].user, !.id = req[r].id,
                 !.size = req[r].size, !.cur = req[r].cur, !.wrote = req[r].wrote,
                 !.pc = "done", !.status = code, !.error = msg]

\* router.use(authenticateToken): the bearer credential names an existing user
Authenticated(u) == Live(users, u)

\* the client has its response; the slot is free for the next request
Finish(r) ==
    /\ req[r].pc = "done"
    /\ req' = [req EXCEPT ![r] = Idle]
    /\ UNCHANGED <<users, domains, files, analytics, websites, disk, mode, clock>>

\* ------------------------------------------------------------------ upload
\* multer fileFilter: the allow-list or a text/ prefix
MimeAllowed(mime) == mime \in {"image/png", "text/x-any"}

\* user.current_storage + req.file.size > user.storage_quota, on the values the
\* driver returned: two texts and a number
QuotaExceeded(current_storage, size, storage_quota) ==
    JsStrGreater(JsPlus(current_storage, JsString(size)), storage_quota)

\* paths of u's directory that a File row or a running request refers to, or that hold bytes
NamesInUse(u) ==
    {s \in Suffixes : \/ <<u, s>> \in disk
                      \/ \E f \in FileIds : Live(files, f) /\ files[f].file_path = <<u, s>>
                      \/ \E q \in Req : req[q].path = <<u, s>>}

\* file.fieldname + '-' + Date.now() + '-' + random + ext: the names one request can
\* receive, taken to differ from every name in use
GeneratedNames(u) ==
    {s \in Suffixes \ NamesInUse(u) : \A t \in Suffixes \ NamesInUse(u) : s <= t}

\* Date.now() + '-' + Math.round(Math.random() * 1E9): what two requests of the same
\* millisecond can draw, a name in use included (nothing compares it with the directory)
DrawnNames(u) == Suffixes

\* multer.diskStorage + upload.single('file') + the handler up to its first await; an
\* error of multer (fileFilter, limits) goes to the error middleware of server.js, which
\* answers err.status || 500 with err.message
UploadStart(r, u, hasFile, size, mime, isPublic, name) ==
    /\ CanStart(r)
    /\ Authenticated(u)
    /\ Cardinality(Unused(files, FileIds))
         > Cardinality({q \in Req : req[q].kind = "upload" /\ InFlight(q)})
    /\ LET base == [Idle EXCEPT !.kind = "upload", !.user = u, !.pc = "done",
                                !.mime = IF hasFile THEN mime ELSE "none"]
           path == <<u, name>>
       IN  IF ~hasFile
           THEN /\ req' = [req EXCEPT ![r] =
                      [base EXCEPT !.status = 400, !.error = "No file uploaded"]]
                /\ UNCHANGED disk
           ELSE IF ~MimeAllowed(mime)
           THEN /\ req' = [req EXCEPT ![r] =
                      [base EXCEPT !.status = 500, !.error = "File type not allowed"]]
                /\ UNCHANGED disk
           ELSE IF size > FileSizeLimit
           THEN /\ req' = [req EXCEPT ![r] =
                      [base EXCEPT !.status = 500, !.size = size, !.error = "File too large"]]
                /\ UNCHANGED disk
           ELSE IF isPublic = "bad"
           THEN /\ req' = [req EXCEPT ![r] =
                      [base EXCEPT !.status = 400, !.size = size, !.error = "errors[]"]]
                /\ disk' = disk \cup {path}
           ELSE /\ req' = [req EXCEPT ![r] =
                      [base EXCEPT !.pc = "up_check", !.size = size, !.flag = isPublic,
                                   !.path = path]]
                /\ disk' = disk \cup {path}
    /\ UNCHANGED <<users, domains, files, analytics, websites, mode, clock>>

\* the catch block: unlink the written file (a failure is only logged), answer 500
UploadCatch(r) ==
    /\ disk' = disk \ {req[r].path}
    /\ req' = [req EXCEPT ![r] = Respond(r, 500, "Failed to upload file")]

\* the quota query and the comparison on its row
UploadCheck(r) ==
    /\ req[r].kind = "upload" /\ req[r].pc = "up_check"
    /\ LET u == req[r].user
       IN  IF ~Live(users, u)
           THEN UploadCatch(r)
           ELSE IF QuotaExceeded(PgText(StorageUsed(u)), req[r].size, users[u].storage_quota)
           THEN IF req[r].path \in disk
                THEN /\ disk' = disk \ {req[r].path}
                     /\ req' = [req EXCEPT ![r] =
                           [Respond(r, 400, "Storage quota exceeded")
                              EXCEPT !.cur = StorageUsed(u)]]
                ELSE UploadCatch(r)
           ELSE /\ req' = [req EXCEPT ![r] =
                      [req[r] EXCEPT !.pc = "up_insert", !.cur = StorageUsed(u)]]
                /\ UNCHANGED disk
    /\ UNCHANGED <<users, domains, files, analytics, websites, mode, clock>>

\* the row of INSERT INTO files (...) VALUES (...)
NewFileRow(r) ==
    [state |-> "live", user_id |-> req[r].user, file_size |-> req[r].size,
     file_path |-> req[r].path, is_public |-> (req[r].flag = "true"),
     download_count |-> 0]

\* variant: the INSERT guarded by a second quota check on the storage at that moment
UploadInsertRechecked(r) ==
    /\ req[r].kind = "upload" /\ req[r].pc = "up_insert"
    /\ IF ~Live(users, req[r].user)
       THEN /\ UploadCatch(r)
            /\ UNCHANGED files
       ELSE IF NumGreater(PgText(StorageUsed(req[r].user) + req[r].size),
                          users[req[r].user].storage_quota)
       THEN /\ disk' = disk \ {req[r].path}
            /\ req' = [req EXCEPT ![r] = Respond(r, 400, "Storage quota exceeded")]
            /\ UNCHANGED files
       ELSE /\ files' = [files EXCEPT ![NewId(files, FileIds)] = NewFileRow(r)]
            /\ req' = [req EXCEPT ![r] =
                  [Respond(r, 201, "none") EXCEPT !.id = NewId(files, FileIds),
                                                  !.wrote = TRUE]]
            /\ UNCHANGED disk
    /\ UNCHANGED <<users, domains, analytics, websites, mode, clock>>

\* INSERT INTO files ... RETURNING *, then the 201 response
UploadInsert(r) ==
    /\ req[r].kind = "upload" /\ req[r].pc = "up_insert"
    /\ IF ~Live(users, req[r].user)
       THEN /\ UploadCatch(r)
            /\ UNCHANGED files
       ELSE /\ files' = [files EXCEPT ![NewId(files, FileIds)] = NewFileRow(r)]
            /\ req' = [req EXCEPT ![r] =
                  [Respond(r, 201, "none") EXCEPT !.id = NewId(files, FileIds),
                                                  !.wrote = TRUE]]
            /\ UNCHANGED disk
    /\ UNCHANGED <<users, domains, analytics, websites, mode, clock>>

\* variant: a catch block that answers 500 without unlinking
UploadCatchKeepsBytes(r, unlinkOk) ==
    /\ disk' = disk
    /\ req' = [req EXCEPT ![r] = Respond(r, 500, "Failed to upload file")]

\* the catch block when fs.unlink itself may reject: the cleanup error is logged
\* ('Failed to cleanup file', kept in flag) and the response is the same
UploadCatchLogged(r, unlinkOk) ==
    /\ disk' = IF unlinkOk THEN disk \ {req[r].path} ELSE disk
    /\ req' = [req EXCEPT ![r] =
          [Respond(r, 500, "Failed to upload file")
             EXCEPT !.flag = IF unlinkOk THEN "absent" ELSE "cleanup failed"]]

\* the INSERT INTO files rejects (the store fails the statement): the catch block runs
UploadInsertFails(r, unlinkOk) ==
    /\ req[r].kind = "upload" /\ req[r].pc = "up_insert"
    /\ UploadCatchLogged(r, unlinkOk)
    /\ UNCHANGED <<users, domains, files, analytics, websites, mode, clock>>

\* ---------------------------------------------------------------- download
\* variant: the check without the is_public disjunct
AccessDeniedToOthers(file, u) == file.user_id # u

\* file.user_id !== req.user.userId && !file.is_public
AccessDenied(file, u) == file.user_id # u /\ ~file.is_public

\* SELECT * FROM files WHERE id = $1, then the access check on that row
DownloadSelect(r, u, id) ==
    /\ CanStart(r)
    /\ Authenticated(u)
    /\ Live(files, id) => files[id].download_count < MaxDownloads
    /\ LET base == [Idle EXCEPT !.kind = "download", !.user = u, !.id = id]
       IN  req' = [req EXCEPT ![r] =
              IF ~Live(files, id)
              THEN [base EXCEPT !.pc = "done", !.status = 404, !.error = "File not found"]
              ELSE IF AccessDenied(files[id], u)
              THEN [base EXCEPT !.pc = "done", !.status = 403, !.error = "Access denied"]
              ELSE [base EXCEPT !.pc = "dl_access", !.path = files[id].file_path]]
    /\ UNCHANGED <<users, domains, files, analytics, websites, disk, mode, clock>>

\* variant: missing bytes repaired by dropping the row
DownloadAccessRepairs(r) ==
    /\ req[r].kind = "download" /\ req[r].pc = "dl_access"
    /\ req' = [req EXCEPT ![r] =
          IF req[r].path \in disk
          THEN [req[r] EXCEPT !.pc = "dl_update"]
          ELSE Respond(r, 404, "File not found on disk")]
    /\ files' = IF req[r].path \in disk \/ ~Live(files, req[r].id)
                THEN files
                ELSE [files EXCEPT ![req[r].id] = Gone]
    /\ UNCHANGED <<users, domains, analytics, websites, disk, mode, clock>>

\* await fs.access(file.file_path)
DownloadAccess(r) ==
    /\ req[r].kind = "download" /\ req[r].pc = "dl_access"
    /\ req' = [req EXCEPT ![r] =
          IF req[r].path \in disk
          THEN [req[r] EXCEPT !.pc = "dl_update"]
          ELSE Respond(r, 404, "File not found on disk")]
    /\ UNCHANGED <<users, domains, files, analytics, websites, disk, mode, clock>>

\* UPDATE files SET download_count = download_count + 1 WHERE id = $1
DownloadUpdate(r) ==
    /\ req[r].kind = "download" /\ req[r].pc = "dl_update"
    /\ files' = IF Live(files, req[r].id)
                THEN [files EXCEPT ![req[r].id].download_count = @ + 1]
                ELSE files
    /\ req' = [req EXCEPT ![r].pc = "dl_stream", ![r].wrote = Live(files, req[r].id)]
    /\ UNCHANGED <<users, domains, analytics, websites, disk, mode, clock>>

\* createReadStream(file.file_path).pipe(res): the bytes reach the requester when the
\* path can still be opened; otherwise the stream fails and nothing is delivered
DownloadStream(r) ==
    /\ req[r].kind = "download" /\ req[r].pc = "dl_stream"
    /\ req' = [req EXCEPT ![r] =
          IF req[r].path \in disk
          THEN Respond(r, 200, "none")
          ELSE Respond(r, 0, "read stream failed")]
    /\ UNCHANGED <<users, domains, files, analytics, websites, disk, mode, clock>>

\* ------------------------------------------------------------- update file
\* PUT /:id: one UPDATE ... WHERE id = $n AND user_id = $m RETURNING *
\* variant: a public file counts as everyone's
PublicOrOwnedFile(u, id) ==
    Live(files, id) /\ (files[id].user_id = u \/ files[id].is_public)

\* WHERE id = $n AND user_id = $m of the files statements
OwnedFile(u, id) == Live(files, id) /\ files[id].user_id = u

UpdateFile(r, u, id, isPublic, hasName) ==
    /\ CanStart(r)
    /\ Authenticated(u)
    /\ LET base == [Idle EXCEPT !.kind = "update_file", !.user = u, !.id = id,
                                !.pc = "done"]
       IN  IF isPublic = "bad"
           THEN /\ req' = [req EXCEPT ![r] = [base EXCEPT !.status = 400, !.error = "errors[]"]]
                /\ UNCHANGED files
           ELSE IF isPublic = "absent" /\ ~hasName
           THEN /\ req' = [req EXCEPT ![r] =
                      [base EXCEPT !.status = 400, !.error = "No fields to update"]]
                /\ UNCHANGED files
           ELSE IF ~OwnedFile(u, id)
           THEN /\ req' = [req EXCEPT ![r] = [base EXCEPT !.status = 404, !.error = "File not found"]]
                /\ UNCHANGED files
           ELSE /\ req' = [req EXCEPT ![r] = [base EXCEPT !.status = 200, !.wrote = TRUE]]
                /\ files' = IF isPublic = "absent" THEN files
                            ELSE [files EXCEPT ![id].is_public = (isPublic = "true")]
    /\ UNCHANGED <<users, domains, analytics, websites, disk, mode, clock>>

\* ------------------------------------------------------------- static files
\* app.use('/uploads', express.static('uploads')): GET /uploads/<owner>/<name> by anyone,
\* no authentication and no look at the files table; id: the File row of that path, if
\* any (0: none)
StaticGet(r, u, owner, name) ==
    /\ CanStart(r)
    /\ LET rows == {f \in FileIds : Live(files, f) /\ files[f].file_path = <<owner, name>>}
           base == [Idle EXCEPT !.kind = "static", !.user = u, !.pc = "done",
                                !.id = IF rows = {} THEN 0 ELSE CHOOSE f \in rows : TRUE]
       IN  req' = [req EXCEPT ![r] =
               IF <<owner, name>> \in disk
               THEN [base EXCEPT !.status = 200]
               ELSE [base EXCEPT !.status = 404, !.error = "Not found"]]
    /\ UNCHANGED <<users, domains, files, analytics, websites, disk, mode, clock>>

\* ------------------------------------------------------------- delete file
\* SELECT * FROM files WHERE id = $1 AND user_id = $2
DeleteFileSelect(r, u, id) ==
    /\ CanStart(r)
    /\ Authenticated(u)
    /\ LET base == [Idle EXCEPT !.kind = "delete_file", !.user = u, !.id = id]
       IN  req' = [req EXCEPT ![r] =
              IF OwnedFile(u, id)
              THEN [base EXCEPT !.pc = "del_unlink", !.path = files[id].file_path]
              ELSE [base EXCEPT !.pc = "done", !.status = 404, !.error = "File not found"]]
    /\ UNCHANGED <<users, domains, files, analytics, websites, disk, mode, clock>>

\* try { await fs.unlink(file.file_path) } catch { log }
DeleteFileUnlink(r) ==
    /\ req[r].kind = "delete_file" /\ req[r].pc = "del_unlink"
    /\ disk' = disk \ {req[r].path}
    /\ req' = [req EXCEPT ![r].pc = "del_row"]
    /\ UNCHANGED <<users, domains, files, analytics, websites, mode, clock>>

\* fs.unlink rejects although the path exists (the filesystem refuses): the error is
\* logged and the handler goes on
DeleteFileUnlinkFails(r) ==
    /\ req[r].kind = "delete_file" /\ req[r].pc = "del_unlink"
    /\ req[r].path \in disk
    /\ req' = [req EXCEPT ![r].pc = "del_row"]
    /\ UNCHANGED <<users, domains, files, analytics, websites, disk, mode, clock>>

\* variant: the row is deleted only when the bytes are gone, else 500
DeleteFileRowIfUnlinked(r) ==
    /\ req[r].kind = "delete_file" /\ req[r].pc = "del_row"
    /\ IF req[r].path \in disk
       THEN /\ req' = [req EXCEPT ![r] = Respond(r, 500, "Failed to delete file")]
            /\ UNCHANGED files
       ELSE /\ files' = IF Live(files, req[r].id) /\ files[req[r].id].user_id = req[r].user
                        THEN [files EXCEPT ![req[r].id] = Gone]
                        ELSE files
            /\ req' = [req EXCEPT ![r] = Respond(r, 200, "none")]
    /\ UNCHANGED <<users, domains, analytics, websites, disk, mode, clock>>

\* DELETE FROM files WHERE id = $1 AND user_id = $2
DeleteFileRow(r) ==
    /\ req[r].kind = "delete_file" /\ req[r].pc = "del_row"
    /\ files' = IF OwnedFile(req[r].user, req[r].id)
                THEN [files EXCEPT ![req[r].id] = Gone]
                ELSE files
    /\ req' = [req EXCEPT ![r] = Respond(r, 200, "none")]
    /\ UNCHANGED <<users, domains, analytics, websites, disk, mode, clock>>

\* ---------------------------------------------------------- register domain
\* JS Number(text) of a decimal text
RECURSIVE JsNumber(_)
JsNumber(t) == IF t = <<>> THEN 0 ELSE 10 * JsNumber(SubSeq(t, 1, Len(t) - 1)) + t[Len(t)]

\* <<(k * b) \div q, (k * b) % q>> for 0 <= b < q, by doubling, so that no intermediate
\* value passes 2 * q
RECURSIVE TimesOver(_, _, _)
TimesOver(k, b, q) ==
    IF k = 0 THEN <<0, 0>>
    ELSE LET h == TimesOver(k \div 2, b, q)
             d1 == 2 * h[1] + (2 * h[2]) \div q
             m1 == (2 * h[2]) % q
             s == m1 + (IF k % 2 = 1 THEN b ELSE 0)
         IN  <<d1 + s \div q, s % q>>

\* Math.round((used / quota) * 100): the nearest integer, a half rounds up
RoundedPercent(used, quota) ==
    LET t == TimesOver(100, used % quota, quota)
    IN  100 * (used \div quota) + t[1] + (IF 2 * t[2] >= quota THEN 1 ELSE 0)

\* variant: the comparison with > for >=
CountAboveQuota(current_count, domain_quota) == JsNumber(current_count) > domain_quota

\* user.current_count >= user.domain_quota: a text against a number, compared as numbers
CountAtQuota(current_count, domain_quota) == JsNumber(current_count) >= domain_quota

\* body('domainName').isFQDN()
IsFQDN(name) == name \in DomainNames

\* variant: the duplicate query restricted to verified registrations
DomainsNamedVerified(name) ==
    {d \in DomainIds : /\ Live(domains, d) /\ domains[d].domain_name = name
                        /\ domains[d].status = "active"}

\* SELECT id FROM domains WHERE domain_name = $1
DomainsNamed(name) == {d \in DomainIds : Live(domains, d) /\ domains[d].domain_name = name}

\* process.env.RENDER_EXTERNAL_HOSTNAME || 'your-service.onrender.com'
ServiceHost == "your-service.onrender.com"

\* variant: the CNAME pointing at the domain itself in place of the service hostname
DnsRecordsToSelf(name, id) ==
    [cname |-> [name |-> name, value |-> name, ttl |-> 300],
     verification |-> [name |-> <<"_acme-challenge", name>>,
                       value |-> <<id, "verify.renderdns.com">>, ttl |-> 300]]

\* the descriptor built from domainName and the new row's id; a template string is the
\* tuple of its parts
DnsRecords(name, id) ==
    [cname |-> [name |-> name, value |-> ServiceHost, ttl |-> 300],
     verification |-> [name |-> <<"_acme-challenge", name>>,
                       value |-> <<id, "verify.renderdns.com">>, ttl |-> 300]]

\* validation, then the quota query and the comparison on its row
RegisterQuota(r, u, name, autoRenew) ==
    /\ CanStart(r)
    /\ Authenticated(u)
    /\ Cardinality(Unused(domains, DomainIds))
         > Cardinality({q \in Req : req[q].kind = "register" /\ InFlight(q)})
    /\ LET base == [Idle EXCEPT !.kind = "register", !.user = u, !.name = name, !.pc = "done"]
       IN  req' = [req EXCEPT ![r] =
              IF ~IsFQDN(name) \/ autoRenew = "bad"
              THEN [base EXCEPT !.status = 400, !.error = "errors[]"]
              ELSE IF CountAtQuota(PgText(DomainCount(u)), users[u].domain_quota)
              THEN [base EXCEPT !.status = 400, !.error = "Domain quota exceeded",
                                !.cur = DomainCount(u)]
              ELSE [base EXCEPT !.pc = "reg_dup", !.flag = autoRenew, !.cur = DomainCount(u)]]
    /\ UNCHANGED <<users, domains, files, analytics, websites, disk, mode, clock>>

\* the duplicate query
RegisterDup(r) ==
    /\ req[r].kind = "register" /\ req[r].pc = "reg_dup"
    /\ req' = [req EXCEPT ![r] =
          IF DomainsNamed(req[r].name) # {}
          THEN [Respond(r, 400, "Domain already exists") EXCEPT !.name = req[r].name]
          ELSE [req[r] EXCEPT !.pc = "reg_insert"]]
    /\ UNCHANGED <<users, domains, files, analytics, websites, disk, mode, clock>>

\* the row of INSERT INTO domains (user_id, domain_name, verification_token, auto_renew)
NewDomainRow(r) ==
    [state |-> "live", user_id |-> req[r].user, domain_name |-> req[r].name,
     status |-> "pending", ssl_status |-> "pending", dns_records |-> SqlNull,
     auto_renew |-> (IF req[r].flag = "true" THEN "true" ELSE "false"),
     last_verified |-> 0]

\* INSERT INTO domains ... RETURNING id, ...
RegisterInsert(r) ==
    /\ req[r].kind = "register" /\ req[r].pc = "reg_insert"
    /\ IF ~Live(users, req[r].user)
       THEN /\ req' = [req EXCEPT ![r] = Respond(r, 500, "Failed to add domain")]
            /\ UNCHANGED domains
       ELSE /\ domains' = [domains EXCEPT ![NewId(domains, DomainIds)] = NewDomainRow(r)]
            /\ req' = [req EXCEPT ![r] =
                  [req[r] EXCEPT !.pc = "reg_dns", !.id = NewId(domains, DomainIds),
                                 !.wrote = TRUE]]
    /\ UNCHANGED <<users, files, analytics, websites, disk, mode, clock>>

\* UPDATE domains SET dns_records = $1 WHERE id = $2, then the 201 response
RegisterDns(r) ==
    /\ req[r].kind = "register" /\ req[r].pc = "reg_dns"
    /\ domains' = IF Live(domains, req[r].id)
                  THEN [domains EXCEPT ![req[r].id].dns_records =
                           <<DnsRecords(req[r].name, req[r].id)>>]
                  ELSE domains
    /\ req' = [req EXCEPT ![r] =
          [Respond(r, 201, "none") EXCEPT !.name = req[r].name,
                                          !.dns = <<DnsRecords(req[r].name, req[r].id)>>]]
    /\ UNCHANGED <<users, files, analytics, websites, disk, mode, clock>>

\* ------------------------------------------------------------ verify domain
\* variant: the SELECT without its user_id condition
ExistingDomain(u, id) == Live(domains, id)

\* SELECT ... FROM domains WHERE id = $1 AND user_id = $2
OwnedDomain(u, id) == Live(domains, id) /\ domains[id].user_id = u

\* SELECT id, domain_name, verification_token, status FROM domains
VerifyColumns == {"id", "domain_name", "verification_token", "status"}

\* the SELECT and the simulated check (Math.random() > 0.3); a failed check answers
\* with dnsRecords: domain.dns_records of the selected row
VerifySelect(r, u, id, isVerified) ==
    /\ CanStart(r)
    /\ Authenticated(u)
    /\ (OwnedDomain(u, id) /\ isVerified) =>
          clock + Cardinality({q \in Req : req[q].pc = "ver_update"}) < MaxVerifies
    /\ LET base == [Idle EXCEPT !.kind = "verify", !.user = u, !.id = id]
       IN  req' = [req EXCEPT ![r] =
              IF ~OwnedDomain(u, id)
              THEN [base EXCEPT !.pc = "done", !.status = 404, !.error = "Domain not found"]
              ELSE IF isVerified
              THEN [base EXCEPT !.pc = "ver_update"]
              ELSE [base EXCEPT !.pc = "done", !.status = 400,
                                !.error = "Domain verification failed",
                                !.dns = JsField(SelectColumns(domains[id], VerifyColumns),
                                                "dns_records")]]
    /\ UNCHANGED <<users, domains, files, analytics, websites, disk, mode, clock>>

\* variant: the SET without ssl_status
VerifiedStatusOnly(row, now) == [row EXCEPT !.status = "active", !.last_verified = now]

\* SET status = 'active', ssl_status = 'active', last_verified = CURRENT_TIMESTAMP
Verified(row, now) == [row EXCEPT !.status = "active", !.ssl_status = "active",
                                  !.last_verified = now]

\* UPDATE domains SET ... WHERE id = $1 at the next tick of the clock, then the 200
\* response
VerifyUpdate(r) ==
    /\ req[r].kind = "verify" /\ req[r].pc = "ver_update"
    /\ clock' = clock + 1
    /\ domains' = IF Live(domains, req[r].id)
                  THEN [domains EXCEPT ![req[r].id] = Verified(@, clock')]
                  ELSE domains
    /\ req' = [req EXCEPT ![r] =
          [Respond(r, 200, "none") EXCEPT !.wrote = Live(domains, req[r].id)]]
    /\ UNCHANGED <<users, files, analytics, websites, disk, mode>>

\* --------------------------------------------------------------- DNS config
\* SELECT domain_name, dns_records, status FROM domains
DnsColumns == {"domain_name", "dns_records", "status"}

\* instructions.records, built from the row's name and req.params.id
DnsInstructions(name, id) ==
    << [type |-> "CNAME", name |-> name, value |-> ServiceHost, ttl |-> 300],
       [type |-> "CNAME", name |-> <<"_acme-challenge", name>>,
        value |-> <<id, "verify.renderdns.com">>, ttl |-> 300] >>

\* GET /:id/dns
DnsConfig(r, u, id) ==
    /\ CanStart(r)
    /\ Authenticated(u)
    /\ LET base == [Idle EXCEPT !.kind = "dns_config", !.user = u, !.id = id, !.pc = "done"]
           domain == SelectColumns(domains[id], DnsColumns)
       IN  req' = [req EXCEPT ![r] =
              IF ~OwnedDomain(u, id)
              THEN [base EXCEPT !.status = 404, !.error = "Domain not found"]
              ELSE [base EXCEPT !.status = 200,
                                !.dns = JsField(domain, "dns_records"),
                                !.records = DnsInstructions(JsField(domain, "domain_name"), id)]]
    /\ UNCHANGED <<users, domains, files, analytics, websites, disk, mode, clock>>

\* ------------------------------------------------------------ update domain
\* UPDATE domains SET auto_renew = $1 ... WHERE id = $2 AND user_id = $3; an absent
\* autoRenew reaches the statement as NULL
UpdateDomain(r, u, id, autoRenew) ==
    /\ CanStart(r)
    /\ Authenticated(u)
    /\ LET base == [Idle EXCEPT !.kind = "update_domain", !.user = u, !.id = id,
                                !.flag = autoRenew, !.pc = "done"]
       IN  IF autoRenew = "bad"
           THEN /\ req' = [req EXCEPT ![r] = [base EXCEPT !.status = 400, !.error = "errors[]"]]
                /\ UNCHANGED domains
           ELSE IF ~OwnedDomain(u, id)
           THEN /\ req' = [req EXCEPT ![r] =
                      [base EXCEPT !.status = 404, !.error = "Domain not found"]]
                /\ UNCHANGED domains
           ELSE /\ req' = [req EXCEPT ![r] = [base EXCEPT !.status = 200, !.wrote = TRUE]]
                /\ domains' = [domains EXCEPT ![id].auto_renew =
                                  IF autoRenew = "absent" THEN "null" ELSE autoRenew]
    /\ UNCHANGED <<users, files, analytics, websites, disk, mode, clock>>

\* ------------------------------------------------------------ delete domain
\* ON DELETE CASCADE of analytics.domain_id
EventsWithoutDomains(table, gone) ==
    [e \in EventIds |->
        IF Live(table, e) /\ table[e].domain_id \in gone THEN Gone ELSE table[e]]

\* ON DELETE SET NULL of websites.domain_id
WebsitesWithoutDomains(table, gone) ==
    [w \in WebsiteIds |->
        IF Live(table, w) /\ table[w].domain_id \in gone
        THEN [table[w] EXCEPT !.domain_id = 0] ELSE table[w]]

\* DELETE FROM domains WHERE id = $1 AND user_id = $2 RETURNING id
DeleteDomain(r, u, id) ==
    /\ CanStart(r)
    /\ Authenticated(u)
    /\ LET base == [Idle EXCEPT !.kind = "delete_domain", !.user = u, !.id = id,
                                !.pc = "done"]
       IN  IF ~OwnedDomain(u, id)
           THEN /\ req' = [req EXCEPT ![r] =
                      [base EXCEPT !.status = 404, !.error = "Domain not found"]]
                /\ UNCHANGED <<domains, analytics, websites>>
           ELSE /\ req' = [req EXCEPT ![r] = [base EXCEPT !.status = 200, !.wrote = TRUE]]
                /\ domains' = [domains EXCEPT ![id] = Gone]
                /\ analytics' = EventsWithoutDomains(analytics, {id})
                /\ websites' = WebsitesWithoutDomains(websites, {id})
    /\ UNCHANGED <<users, files, disk, mode, clock>>

\* ---------------------------------------------------------------- log event
\* the row of INSERT INTO analytics (user_id, website_id, domain_id, event_type, ...);
\* 0: NULL; created_at defaults to CURRENT_TIMESTAMP
NewEventRow(u, websiteId, domainId, eventType, now) ==
    [state |-> "live", user_id |-> u, website_id |-> websiteId, domain_id |-> domainId,
     event_type |-> eventType, created_at |-> now]

\* POST /analytics/log: the INSERT fails when a foreign key names no row; "" is a
\* missing or empty eventType
LogEvent(r, u, eventType, websiteId, domainId) ==
    /\ CanStart(r)
    /\ Authenticated(u)
    /\ Unused(analytics, EventIds) # {}
    /\ LET base == [Idle EXCEPT !.kind = "log_event", !.user = u, !.pc = "done",
                                !.name = eventType]
       IN  IF eventType = ""
           THEN /\ req' = [req EXCEPT ![r] =
                      [base EXCEPT !.status = 400, !.error = "Event type is required"]]
                /\ UNCHANGED analytics
           ELSE IF \/ websiteId # 0 /\ ~Live(websites, websiteId)
                   \/ domainId # 0 /\ ~Live(domains, domainId)
           THEN /\ req' = [req EXCEPT ![r] =
                      [base EXCEPT !.status = 500, !.error = "Failed to log analytics event"]]
                /\ UNCHANGED analytics
           ELSE /\ req' = [req EXCEPT ![r] =
                      [base EXCEPT !.status = 200, !.wrote = TRUE,
                                   !.id = NewId(analytics, EventIds)]]
                /\ analytics' = [analytics EXCEPT ![NewId(analytics, EventIds)] =
                                    NewEventRow(u, websiteId, domainId, eventType, clock)]
    /\ UNCHANGED <<users, domains, files, websites, disk, mode, clock>>

\* ------------------------------------------------------- analytics queries
\* the clock counts half-days
TicksPerDay == 2

\* half a day passes
Tick ==
    /\ clock < MaxTicks
    /\ clock' = clock + 1
    /\ UNCHANGED <<users, domains, files, analytics, websites, disk, req, mode>>

\* switch (period): the INTERVAL of dateFilter, in half-days; 7 days by default
PeriodTicks(period) ==
    CASE period = "24h" -> TicksPerDay
      [] period = "30d" -> 30 * TicksPerDay
      [] OTHER -> 7 * TicksPerDay

\* DATE_TRUNC('day', created_at)
DayOf(t) == t \div TicksPerDay

\* created_at >= CURRENT_TIMESTAMP - INTERVAL
InPeriod(e, now, period) ==
    Live(analytics, e) /\ analytics[e].created_at >= now - PeriodTicks(period)

\* FROM analytics WHERE user_id = u AND created_at >= dateFilter AND event_type = type
UserEvents(u, now, period, type) ==
    {e \in EventIds : /\ InPeriod(e, now, period)
                      /\ analytics[e].user_id = u
                      /\ analytics[e].event_type = type}

\* FROM analytics WHERE domain_id = id AND created_at >= dateFilter
DomainEvents(id, now, period) ==
    {e \in EventIds : InPeriod(e, now, period) /\ analytics[e].domain_id = id}

EventDays(S) == {DayOf(analytics[e].created_at) : e \in S}
OnDay(S, d) == {e \in S : DayOf(analytics[e].created_at) = d}

\* SELECT DATE_TRUNC('day', created_at) as date, COUNT(*) ... GROUP BY date: one row per
\* day that has an event, the count as the driver's text
CountByDay(S) == [d \in EventDays(S) |-> PgText(Cardinality(OnDay(S, d)))]

\* rows.reduce((sum, row) => sum + parseInt(row.count), 0)
RECURSIVE SumRows(_, _)
SumRows(rows, days) ==
    IF days = {} THEN 0
    ELSE LET d == CHOOSE x \in days : TRUE
         IN  JsNumber(rows[d]) + SumRows(rows, days \ {d})

\* GET /monitor/analytics, first query: page views by day
AnalyticsViews(r, u, period) ==
    /\ CanStart(r)
    /\ Authenticated(u)
    /\ req' = [req EXCEPT ![r] =
           [Idle EXCEPT !.kind = "analytics", !.user = u, !.pc = "an_downloads",
                        !.name = period,
                        !.report = <<[pageViews |->
                                        CountByDay(UserEvents(u, clock, period, "page_view"))]>>]]
    /\ UNCHANGED <<users, domains, files, analytics, websites, disk, mode, clock>>

\* second query: downloads by day (the queries of top pages and traffic sources read
\* columns that are not modelled)
AnalyticsDownloads(r) ==
    /\ req[r].pc = "an_downloads"
    /\ LET got == req[r].report[1]
       IN  req' = [req EXCEPT ![r].pc = "an_errors",
                              ![r].report =
                  <<[pageViews |-> got.pageViews,
                     downloads |-> CountByDay(UserEvents(req[r].user, clock, req[r].name,
                                                         "file_download"))]>>]
    /\ UNCHANGED <<users, domains, files, analytics, websites, disk, mode, clock>>

\* last query: errors by day, and the response with its summary
AnalyticsErrors(r) ==
    /\ req[r].pc = "an_errors"
    /\ LET got == req[r].report[1]
           errors == CountByDay(UserEvents(req[r].user, clock, req[r].name, "error"))
       IN  req' = [req EXCEPT ![r] =
               [Respond(r, 200, "none") EXCEPT
                   !.name = req[r].name,
                   !.report =
                     <<[pageViews |-> got.pageViews, downloads |-> got.downloads,
                        errors |-> errors,
                        totalPageViews |-> SumRows(got.pageViews, DOMAIN got.pageViews),
                        totalDownloads |-> SumRows(got.downloads, DOMAIN got.downloads),
                        totalErrors |-> SumRows(errors, DOMAIN errors)]>>]]
    /\ UNCHANGED <<users, domains, files, analytics, websites, disk, mode, clock>>

\* variant: the errors against the other requests
ErrorPercentageOfRest(row) ==
    IF JsNumber(row.total_requests) > JsNumber(row.errors)
    THEN RoundedPercent(JsNumber(row.errors),
                        JsNumber(row.total_requests) - JsNumber(row.errors))
    ELSE 0

\* row.total_requests > 0 ? Math.round((parseInt(row.errors) /
\* parseInt(row.total_requests)) * 100) : 0
ErrorPercentage(row) ==
    IF JsNumber(row.total_requests) > 0
    THEN RoundedPercent(JsNumber(row.errors), JsNumber(row.total_requests))
    ELSE 0

\* SELECT date, COUNT(*) as total_requests, COUNT(CASE WHEN event_type = 'error' ...) as
\* errors ... GROUP BY date
ErrorRateRows(S) ==
    [d \in EventDays(S) |->
        [total_requests |-> PgText(Cardinality(OnDay(S, d))),
         errors |-> PgText(Cardinality({e \in OnDay(S, d) :
                                           analytics[e].event_type = "error"}))]]

\* GET /monitor/domains/:id/stats, the ownership query
DomainStatsSelect(r, u, id, period) ==
    /\ CanStart(r)
    /\ Authenticated(u)
    /\ LET base == [Idle EXCEPT !.kind = "domain_stats", !.user = u, !.id = id,
                                !.name = period]
       IN  req' = [req EXCEPT ![r] =
               IF OwnedDomain(u, id)
               THEN [base EXCEPT !.pc = "ds_traffic"]
               ELSE [base EXCEPT !.pc = "done", !.status = 404,
                                 !.error = "Domain not found"]]
    /\ UNCHANGED <<users, domains, files, analytics, websites, disk, mode, clock>>

\* the traffic query; its rows are by hour, the model keeps what the response sums
\* (the query of top pages reads a column that is not modelled)
DomainStatsTraffic(r) ==
    /\ req[r].pc = "ds_traffic"
    /\ req' = [req EXCEPT ![r].pc = "ds_rates",
                          ![r].cur = Cardinality(DomainEvents(req[r].id, clock, req[r].name))]
    /\ UNCHANGED <<users, domains, files, analytics, websites, disk, mode, clock>>

\* the error-rate query, the percentage of each of its rows, and the response
DomainStatsRates(r) ==
    /\ req[r].pc = "ds_rates"
    /\ LET rows == ErrorRateRows(DomainEvents(req[r].id, clock, req[r].name))
       IN  req' = [req EXCEPT ![r] =
               [Respond(r, 200, "none") EXCEPT
                   !.name = req[r].name,
                   !.report =
                     <<[errorRates |->
                           [d \in DOMAIN rows |->
                               [total_requests |-> rows[d].total_requests,
                                errors |-> rows[d].errors,
                                errorPercentage |-> ErrorPercentage(rows[d])]],
                        totalRequests |-> req[r].cur,
                        totalErrors |->
                           SumRows([d \in DOMAIN rows |-> rows[d].errors], DOMAIN rows)]>>]]
    /\ UNCHANGED <<users, domains, files, analytics, websites, disk, mode, clock>>

\* ----------------------------------------------------------- delete account
\* variant: a user_id reference without ON DELETE CASCADE
RowsKept(table, ids, u) == table

\* user_id ... REFERENCES users(id) ON DELETE CASCADE: the table after user u's row goes
RowsWithoutUser(table, ids, u) ==
    [i \in ids |-> IF Live(table, i) /\ table[i].user_id = u THEN Gone ELSE table[i]]

\* ids of the live rows of a table that user u owns
OwnedBy(table, ids, u) == {i \in ids : Live(table, i) /\ table[i].user_id = u}

\* ON DELETE CASCADE of analytics.website_id
EventsWithoutWebsites(table, gone) ==
    [e \in EventIds |->
        IF Live(table, e) /\ table[e].website_id \in gone THEN Gone ELSE table[e]]

\* body('password').notEmpty() and the confirmation validator
AccountInputValid(password, confirmation) == password # "" /\ confirmation = "DELETE"

\* validation, then SELECT password_hash FROM users WHERE id = $1
DeleteAccountSelect(r, u, password, confirmation) ==
    /\ CanStart(r)
    /\ Authenticated(u)
    /\ LET base == [Idle EXCEPT !.kind = "delete_account", !.user = u]
       IN  req' = [req EXCEPT ![r] =
              IF ~AccountInputValid(password, confirmation)
              THEN [base EXCEPT !.pc = "done", !.status = 400, !.error = "errors[]"]
              ELSE IF ~Live(users, u)
              THEN [base EXCEPT !.pc = "done", !.status = 404, !.error = "User not found"]
              ELSE [base EXCEPT !.pc = "acct_compare", !.name = password,
                                !.flag = confirmation,
                                !.secret = users[u].password_hash]]
    /\ UNCHANGED <<users, domains, files, analytics, websites, disk, mode, clock>>

\* await bcrypt.compare(password, user.password_hash)
DeleteAccountCompare(r) ==
    /\ req[r].kind = "delete_account" /\ req[r].pc = "acct_compare"
    /\ req' = [req EXCEPT ![r] =
          IF req[r].name # req[r].secret
          THEN Respond(r, 400, "Password is incorrect")
          ELSE [req[r] EXCEPT !.pc = "acct_delete"]]
    /\ UNCHANGED <<users, domains, files, analytics, websites, disk, mode, clock>>

\* DELETE FROM users WHERE id = $1 with the cascades of the schema, then the 200 response
DeleteAccountRow(r) ==
    /\ req[r].kind = "delete_account" /\ req[r].pc = "acct_delete"
    /\ LET u == req[r].user
           goneDomains == OwnedBy(domains, DomainIds, u)
           goneWebsites == OwnedBy(websites, WebsiteIds, u)
       IN  /\ users' = [users EXCEPT ![u] = IF Live(users, u) THEN Gone ELSE @]
           /\ domains' = RowsWithoutUser(domains, DomainIds, u)
           /\ files' = RowsWithoutUser(files, FileIds, u)
           /\ websites' = WebsitesWithoutDomains(
                              RowsWithoutUser(websites, WebsiteIds, u), goneDomains)
           /\ analytics' = EventsWithoutWebsites(
                               EventsWithoutDomains(
                                   RowsWithoutUser(analytics, EventIds, u), goneDomains),
                               goneWebsites)
           /\ req' = [req EXCEPT ![r] =
                 [Respond(r, 200, "none") EXCEPT !.wrote = Live(users, u)]]
    /\ UNCHANGED <<disk, mode, clock>>

\* ------------------------------------------------------------ usage reports
\* variant: the available bytes floored at zero
UsageReportFloored(storage_quota, total_size) ==
    LET used == JsNumber(total_size)
        left == JsNumber(storage_quota) - used
    IN  [quota |-> storage_quota, used |-> used,
         available |-> IF left < 0 THEN 0 ELSE left,
         percentage |-> RoundedPercent(used, JsNumber(storage_quota))]

\* the storage figures of both reports, from the two texts the driver returned:
\* parseInt(total_size), storage_quota - parseInt(total_size),
\* Math.round((parseInt(total_size) / storage_quota) * 100)
UsageReport(storage_quota, total_size) ==
    LET used == JsNumber(total_size)
    IN  [quota |-> storage_quota, used |-> used,
         available |-> JsNumber(storage_quota) - used,
         percentage |-> RoundedPercent(used, JsNumber(storage_quota))]

\* GET /files/stats/usage, first query: the aggregates over the caller's File rows
FileStatsSum(r, u) ==
    /\ CanStart(r)
    /\ Authenticated(u)
    /\ req' = [req EXCEPT ![r] =
           [Idle EXCEPT !.kind = "file_stats", !.user = u, !.pc = "fs_quota",
                        !.cur = PgText(StorageUsed(u))]]
    /\ UNCHANGED <<users, domains, files, analytics, websites, disk, mode, clock>>

\* second query: the caller's storage_quota, and the response; without a user row
\* rows[0] is undefined and the handler's catch answers
FileStatsQuota(r) ==
    /\ req[r].pc = "fs_quota"
    /\ LET u == req[r].user
       IN  req' = [req EXCEPT ![r] =
               IF ~Live(users, u)
               THEN Respond(r, 500, "Failed to get file statistics")
               ELSE [Respond(r, 200, "none") EXCEPT
                        !.report = <<UsageReport(users[u].storage_quota, req[r].cur)>>]]
    /\ UNCHANGED <<users, domains, files, analytics, websites, disk, mode, clock>>

\* GET /users/stats: one statement reads the quota and the aggregates
UserStats(r, u) ==
    /\ CanStart(r)
    /\ Authenticated(u)
    /\ LET base == [Idle EXCEPT !.kind = "user_stats", !.user = u, !.pc = "done"]
       IN  req' = [req EXCEPT ![r] =
               IF ~Live(users, u)
               THEN [base EXCEPT !.status = 404, !.error = "User not found"]
               ELSE [base EXCEPT !.status = 200,
                        !.report = <<UsageReport(users[u].storage_quota,
                                                 PgText(StorageUsed(u)))>>]]
    /\ UNCHANGED <<users, domains, files, analytics, websites, disk, mode, clock>>

\* --------------------------------------------------------------- upgrade plan
\* const plans = { pro: {...}, enterprise: {...} }; a storage_quota is kept as the
\* decimal text the BIGINT column returns (10737418240 and 107374182400)
PRO_DOMAIN_QUOTA == 10
ENTERPRISE_DOMAIN_QUOTA == 100
plans ==
    [pro |-> [storage_quota |-> <<1, 0, 7, 3, 7, 4, 1, 8, 2, 4, 0>>,
              domain_quota |-> PRO_DOMAIN_QUOTA],
     enterprise |-> [storage_quota |-> <<1, 0, 7, 3, 7, 4, 1, 8, 2, 4, 0, 0>>,
                     domain_quota |-> ENTERPRISE_DOMAIN_QUOTA]]

\* variant: the domain quota left as it was
UpgradedStorageOnly(row, planType) ==
    [row EXCEPT !.plan_type = planType,
                !.storage_quota = plans[planType].storage_quota]

\* UPDATE users SET plan_type = $1, storage_quota = $2, domain_quota = $3
Upgraded(row, planType) ==
    [row EXCEPT !.plan_type = planType,
                !.storage_quota = plans[planType].storage_quota,
                !.domain_quota = plans[planType].domain_quota]

\* POST /users/upgrade
UpgradePlan(r, u, planType) ==
    /\ CanStart(r)
    /\ Authenticated(u)
    /\ LET base == [Idle EXCEPT !.kind = "upgrade", !.user = u, !.name = planType,
                                !.pc = "done"]
       IN  IF planType \notin {"pro", "enterprise"}
           THEN /\ req' = [req EXCEPT ![r] = [base EXCEPT !.status = 400, !.error = "errors[]"]]
                /\ UNCHANGED users
           ELSE IF planType \notin DOMAIN plans
           THEN /\ req' = [req EXCEPT ![r] =
                      [base EXCEPT !.status = 400, !.error = "Invalid plan type"]]
                /\ UNCHANGED users
           ELSE /\ req' = [req EXCEPT ![r] = [base EXCEPT !.status = 200, !.wrote = TRUE]]
                /\ users' = [users EXCEPT ![u] = Upgraded(@, planType)]
    /\ UNCHANGED <<domains, files, analytics, websites, disk, mode, clock>>

\* -------------------------------------------------------------------- init
FreeUser == [state |-> "live", password_hash |-> "secret", plan_type |-> "free",
             storage_quota |-> PgText(DEFAULT_STORAGE_QUOTA),
             domain_quota |-> DEFAULT_DOMAIN_QUOTA]

\* both users registered, nothing stored, no request running
Fresh ==
    /\ users = [u \in Users |-> FreeUser]
    /\ domains = [d \in DomainIds |-> NoRow]
    /\ files = [f \in FileIds |-> NoRow]
    /\ analytics = [e \in EventIds |-> NoRow]
    /\ disk = {}
    /\ req = [r \in Req |-> Idle]
    /\ clock = 0

Empty == Fresh /\ websites = [w \in WebsiteIds |-> NoRow]

Init == Empty /\ mode = "concurrent"
InitSerial == Empty /\ mode = "serial"
InitAnyMode == Empty /\ mode \in {"serial", "concurrent"}

\* a row of CREATE TABLE websites; no handler writes this table, its rows are
\* provisioned directly in the store
WebsiteRow(u) == [state |-> "live", user_id |-> u, domain_id |-> 0]

InitAccount ==
    /\ Fresh
    /\ websites \in [WebsiteIds -> {NoRow} \cup {WebsiteRow(u) : u \in Users}]
    /\ mode = "concurrent"

\* ------------------------------------------------------------ request mixes
UploadSteps(r, uploaders, sizes, flags, mimes, present) ==
    \/ \E u \in uploaders, hasFile \in present, size \in sizes, mime \in mimes,
          isPublic \in flags :
            \E name \in GeneratedNames(u) :
                UploadStart(r, u, hasFile, size, mime, isPublic, name)
    \/ UploadCheck(r)
    \/ UploadInsert(r)

DownloadSteps(r) ==
    \/ \E u \in Users, id \in FileIds : DownloadSelect(r, u, id)
    \/ DownloadAccess(r)
    \/ DownloadUpdate(r)
    \/ DownloadStream(r)

DeleteFileSteps(r) ==
    \/ \E u \in Users, id \in FileIds : DeleteFileSelect(r, u, id)
    \/ DeleteFileUnlink(r)
    \/ DeleteFileRow(r)

\* uploads of every size against the quota, and deletes
NextUpload ==
    \E r \in Req :
        \/ UploadSteps(r, Users, Sizes, {"false"}, {"image/png"}, {TRUE})
        \/ DeleteFileSteps(r)
        \/ Finish(r)

UploadSpec == Init /\ [][NextUpload]_vars
UploadSerialSpec == InitSerial /\ [][NextUpload]_vars

\* small uploads, downloads by owner and non-owner, visibility changes, deletes
NextDownload ==
    \E r \in Req :
        \/ UploadSteps(r, {"u1"}, {1}, {"true", "false"}, {"image/png"}, {TRUE})
        \/ DownloadSteps(r)
        \/ \E u \in Users, id \in FileIds, isPublic \in {"absent", "true", "false", "bad"},
              hasName \in BOOLEAN : UpdateFile(r, u, id, isPublic, hasName)
        \/ DeleteFileSteps(r)
        \/ Finish(r)

DownloadSpec == InitAnyMode /\ [][NextDownload]_vars

\* small uploads by u1 whose INSERT may be failed by the store, and deletes
NextUploadFail ==
    \E r \in Req :
        \/ UploadSteps(r, {"u1"}, {1}, {"false"}, {"image/png"}, {TRUE})
        \/ \E unlinkOk \in BOOLEAN : UploadInsertFails(r, unlinkOk)
        \/ DeleteFileSteps(r)
        \/ Finish(r)

UploadFailSpec == Init /\ [][NextUploadFail]_vars

\* uploads by u1 and deletes by both users whose unlink the filesystem may refuse
NextDeleteFile ==
    \E r \in Req :
        \/ UploadSteps(r, {"u1"}, {1, 10}, {"false"}, {"image/png"}, {TRUE})
        \/ DeleteFileSteps(r)
        \/ DeleteFileUnlinkFails(r)
        \/ Finish(r)

DeleteFileSpec == Init /\ [][NextDeleteFile]_vars

\* one byte more than the free quota
OverQuotaSize == DEFAULT_STORAGE_QUOTA + 1

\* uploads by u1 of allowed and disallowed types, small and larger than the whole quota,
\* and deletes
NextUploadFilter ==
    \E r \in Req :
        \/ UploadSteps(r, {"u1"}, {1, OverQuotaSize}, {"false"},
                       {"image/png", "text/x-any", "application/x-msdownload"}, {TRUE})
        \/ DeleteFileSteps(r)
        \/ Finish(r)

UploadFilterSpec == Init /\ [][NextUploadFilter]_vars

\* u1's uploads and deletes, and both usage reports
NextUsage ==
    \E r \in Req :
        \/ UploadSteps(r, {"u1"}, {10, 600000000}, {"false"}, {"image/png"}, {TRUE})
        \/ DeleteFileSteps(r)
        \/ FileStatsSum(r, "u1")
        \/ FileStatsQuota(r)
        \/ UserStats(r, "u1")
        \/ Finish(r)

UsageSpec == InitAnyMode /\ [][NextUsage]_vars

RegisterSteps(r, registrants, names, flags) ==
    \/ \E u \in registrants, name \in names, autoRenew \in flags :
            RegisterQuota(r, u, name, autoRenew)
    \/ RegisterDup(r)
    \/ RegisterInsert(r)
    \/ RegisterDns(r)

VerifySteps(r) ==
    \/ \E u \in Users, id \in DomainIds, isVerified \in BOOLEAN :
            VerifySelect(r, u, id, isVerified)
    \/ VerifyUpdate(r)

\* registrations of every name, and of an invalid one, by both users, and deletions
NextRegister ==
    \E r \in Req :
        \/ RegisterSteps(r, Users, DomainNames \cup {"not a name"}, {"absent"})
        \/ \E u \in Users, id \in DomainIds : DeleteDomain(r, u, id)
        \/ Finish(r)

RegisterSpec == InitAnyMode /\ [][NextRegister]_vars

\* registrations of one name by u1, verifications by owner and non-owner, settings
\* changes, deletions
NextVerify ==
    \E r \in Req :
        \/ RegisterSteps(r, {"u1"}, {"a.com"}, {"absent"})
        \/ VerifySteps(r)
        \/ \E u \in Users, id \in DomainIds, autoRenew \in {"true", "false"} :
                UpdateDomain(r, u, id, autoRenew)
        \/ \E u \in Users, id \in DomainIds : DeleteDomain(r, u, id)
        \/ Finish(r)

VerifySpec == Init /\ [][NextVerify]_vars

\* registrations of one name by u1, DNS-config reads by owner and non-owner, deletions
NextDns ==
    \E r \in Req :
        \/ RegisterSteps(r, {"u1"}, {"a.com"}, {"absent"})
        \/ \E u \in Users, id \in DomainIds : DnsConfig(r, u, id)
        \/ \E u \in Users, id \in DomainIds : DeleteDomain(r, u, id)
        \/ Finish(r)

DnsSpec == InitAnyMode /\ [][NextDns]_vars

DeleteAccountSteps(r) ==
    \/ \E u \in Users, password \in {"secret", "guess", ""},
          confirmation \in {"DELETE", "delete"} :
            DeleteAccountSelect(r, u, password, confirmation)
    \/ DeleteAccountCompare(r)
    \/ DeleteAccountRow(r)

\* u1 registers and uploads, both users log events (about no domain or the first one)
\* and delete their accounts
NextAccount ==
    \E r \in Req :
        \/ RegisterSteps(r, {"u1"}, {"a.com"}, {"absent"})
        \/ UploadSteps(r, {"u1"}, {1}, {"false"}, {"image/png"}, {TRUE})
        \/ \E u \in Users, eventType \in {"", "page_view"},
              websiteId \in {0} \cup WebsiteIds, domainId \in {0, 1} :
                /\ Unused(analytics, 1..MaxAccountEvents) # {}
                /\ LogEvent(r, u, eventType, websiteId, domainId)
        \/ DeleteAccountSteps(r)
        \/ Finish(r)

AccountSpec == InitAccount /\ [][NextAccount]_vars

\* u1 registers a domain and logs page views and errors about it while time passes,
\* and asks for both analytics reports, one request at a time
NextAnalytics ==
    \/ \E r \in Req :
        \/ RegisterSteps(r, {"u1"}, {"a.com"}, {"absent"})
        \/ \E eventType \in {"page_view", "error"} : LogEvent(r, "u1", eventType, 0, 1)
        \/ \E period \in {"24h", "7d"} : AnalyticsViews(r, "u1", period)
        \/ AnalyticsDownloads(r)
        \/ AnalyticsErrors(r)
        \/ DomainStatsSelect(r, "u1", 1, "24h")
        \/ DomainStatsTraffic(r)
        \/ DomainStatsRates(r)
        \/ Finish(r)
    \/ Tick

AnalyticsSpec == InitSerial /\ [][NextAnalytics]_vars

\* u1 registers a domain, both users log events with and without a type, about no domain
\* or about the first one, and u1 reads the domain's statistics
NextLog ==
    \E r \in Req :
        \/ RegisterSteps(r, {"u1"}, {"a.com"}, {"absent"})
        \/ \E u \in Users, eventType \in {"", "error"}, domainId \in {0, 1} :
                LogEvent(r, u, eventType, 0, domainId)
        \/ DomainStatsSelect(r, "u1", 1, "24h")
        \/ DomainStatsTraffic(r)
        \/ DomainStatsRates(r)
        \/ Finish(r)

LogSpec == InitAnyMode /\ [][NextLog]_vars

\* u1 uploads a public file and registers a domain; both users send updates and deletes
\* of files and domains, well-formed and not
NextOwner ==
    \E r \in Req :
        \/ UploadSteps(r, {"u1"}, {1}, {"true"}, {"image/png"}, {TRUE})
        \/ RegisterSteps(r, {"u1"}, {"a.com"}, {"absent"})
        \/ \E u \in Users, isPublic \in {"false", "bad"} :
                UpdateFile(r, u, 1, isPublic, FALSE)
        \/ DeleteFileSteps(r)
        \/ \E u \in Users, autoRenew \in {"true", "bad"} : UpdateDomain(r, u, 1, autoRenew)
        \/ \E u \in Users : DeleteDomain(r, u, 1)
        \/ Finish(r)

OwnerSpec == Init /\ [][NextOwner]_vars

\* plan changes of both users to the two plans and to 'free', with u1's uploads and
\* registrations
NextPlan ==
    \E r \in Req :
        \/ \E u \in Users, planType \in {"pro", "enterprise", "free"} :
                UpgradePlan(r, u, planType)
        \/ UploadSteps(r, {"u1"}, {1}, {"false"}, {"image/png"}, {TRUE})
        \/ RegisterSteps(r, {"u1"}, {"a.com"}, {"absent"})
        \/ Finish(r)

\* u1's uploads, each with whatever name the generator draws, and deletes
NextUploadNames ==
    \E r \in Req :
        \/ \E name \in DrawnNames("u1") :
                UploadStart(r, "u1", TRUE, 1, "image/png", "false", name)
        \/ UploadCheck(r)
        \/ UploadInsert(r)
        \/ DeleteFileSteps(r)
        \/ Finish(r)

UploadNamesSpec == InitAnyMode /\ [][NextUploadNames]_vars

\* u1 uploads public and private files, changes their flag and deletes them; both users
\* fetch paths of u1's directory from the static route
NextStatic ==
    \E r \in Req :
        \/ UploadSteps(r, {"u1"}, {1}, {"true", "false"}, {"image/png"}, {TRUE})
        \/ \E id \in FileIds, isPublic \in {"true", "false"} :
                UpdateFile(r, "u1", id, isPublic, FALSE)
        \/ DeleteFileSteps(r)
        \/ \E u \in Users, name \in Suffixes : StaticGet(r, u, "u1", name)
        \/ Finish(r)

StaticSpec == Init /\ [][NextStatic]_vars

\* u1 registers a domain with and without autoRenew and updates it with and without
NextRenew ==
    \E r \in Req :
        \/ RegisterSteps(r, {"u1"}, {"a.com"}, {"absent", "true"})
        \/ \E id \in DomainIds, autoRenew \in {"true", "false", "absent"} :
                UpdateDomain(r, "u1", id, autoRenew)
        \/ \E id \in DomainIds : DeleteDomain(r, "u1", id)
        \/ Finish(r)

RenewSpec == InitAnyMode /\ [][NextRenew]_vars

PlanSpec == InitAnyMode /\ [][NextPlan]_vars
PlanSerialSpec == InitSerial /\ [][NextPlan]_vars

\* ------------------------------------------------------------------ claims
\* n bytes are within a quota given as decimal text
Fits(n, quota) == ~NumGreater(PgText(n), quota)
UploadDone(r) == req[r].kind = "upload" /\ req[r].pc = "done" /\ req[r].status \in {201, 400}
LivePaths == {files[f].file_path : f \in {g \in FileIds : Live(files, g)}}
\* request r took the step of this transition and it was its last
Ends(r, kind) == req'[r].kind = kind /\ req'[r].pc = "done" /\ req[r].pc # "done"
\* request r entered its slot in this transition
Starts(r, kind) == req[r] = Idle /\ req'[r].kind = kind
NameTaken(name) == \E d \in DomainIds : Live(domains, d) /\ domains[d].domain_name = name
OwnersLive(table, ids) == \A i \in ids : Live(table, i) => Live(users, table[i].user_id)
Tables == <<users, domains, files, analytics, websites>>

\* C1: when a user's uploads run one at a time, the user's stored bytes never exceed
\* storage_quota; an upload with current_storage + size > storage_quota is rejected
\* with the storage-quota error, adds no row and leaves no bytes, and an upload with
\* current_storage + size <= storage_quota is accepted.
C1_SerialUploadsRespectQuota ==
    mode = "serial" =>
        /\ \A u \in Users : Live(users, u) => Fits(StorageUsed(u), users[u].storage_quota)
        /\ \A r \in Req : UploadDone(r) =>
              LET quota == users[req[r].user].storage_quota
              IN  IF Fits(req[r].cur + req[r].size, quota)
                  THEN req[r].status = 201 /\ req[r].wrote
                  ELSE /\ req[r].status = 400
                       /\ req[r].error = "Storage quota exceeded"
                       /\ ~req[r].wrote
                       /\ disk \subseteq LivePaths

\* C2: an upload that passed the storage check inserts its row whatever the user's
\* storage has become since the check (check and insert are not atomic), so two
\* overlapping uploads that read the same current_storage can jointly exceed the quota.
C2_InsertFollowsStaleCheck ==
    [][\A r \in Req :
          (req[r].kind = "upload" /\ req[r].pc = "up_insert" /\ req'[r].pc = "done"
             /\ Live(users, req[r].user))
          => /\ req'[r].status = 201
             /\ StorageUsed(req[r].user)' = StorageUsed(req[r].user) + req[r].size]_vars

C2_BothPassedAndExceed ==
    \E r1, r2 \in Req :
        /\ r1 # r2
        /\ req[r1].kind = "upload" /\ req[r1].pc = "done" /\ req[r1].status = 201
        /\ req[r2].kind = "upload" /\ req[r2].pc = "done" /\ req[r2].status = 201
        /\ req[r1].user = req[r2].user
        /\ req[r1].cur = req[r2].cur
        /\ Fits(req[r1].cur + req[r1].size, users[req[r1].user].storage_quota)
        /\ Fits(req[r2].cur + req[r2].size, users[req[r2].user].storage_quota)
        /\ ~Fits(StorageUsed(req[r1].user), users[req[r1].user].storage_quota)

\* C3: in every reachable state, whatever the interleaving of register requests, at
\* most one Domain row exists for any domain name.
C3_OneRowPerDomainName ==
    \A name \in DomainNames :
        Cardinality({d \in DomainIds : Live(domains, d) /\ domains[d].domain_name = name}) <= 1

\* C4: every domain has (status, ssl_status) equal to (pending, pending) or (active,
\* active) in every reachable state; a verify of the caller's own domain ends either 200
\* with the row at (active, active), written in that one step, or 400 with the row
\* unchanged.
C4_VerifyIsAtomic ==
    /\ [](\A d \in DomainIds : Live(domains, d) =>
             <<domains[d].status, domains[d].ssl_status>>
                 \in {<<"pending", "pending">>, <<"active", "active">>})
    /\ [][\A r \in Req :
             (/\ Ends(r, "verify")
              /\ Live(domains, req'[r].id)
              /\ domains[req'[r].id].user_id = req'[r].user)
             => IF req'[r].status = 200
                THEN /\ domains'[req'[r].id].status = "active"
                     /\ domains'[req'[r].id].ssl_status = "active"
                ELSE /\ req'[r].status = 400
                     /\ domains'[req'[r].id] = domains[req'[r].id]]_vars

C4_VerifiedActive ==
    \E r \in Req :
        /\ req[r].kind = "verify" /\ req[r].pc = "done" /\ req[r].status = 200 /\ req[r].wrote
        /\ Live(domains, req[r].id)
        /\ domains[req[r].id].status = "active" /\ domains[req[r].id].ssl_status = "active"

\* C5: a download has incremented download_count exactly when it delivered the bytes: a
\* finished download that succeeded (200) has incremented it, one that failed has not.
C5_CountOnlyOnDelivery ==
    \A r \in Req :
        (req[r].kind = "download" /\ req[r].pc = "done")
            => (req[r].wrote <=> req[r].status = 200)

\* C6: a download of an existing file passes the access check when the requester owns
\* the file or the row's is_public is true at that moment, and is answered 403 'Access
\* denied' otherwise; with requests one at a time a download that passed ends 200.
C6_AccessDecidedOnCurrentFlag ==
    /\ [][\A r \in Req :
             (Starts(r, "download") /\ Live(files, req'[r].id))
             => IF \/ files[req'[r].id].user_id = req'[r].user
                   \/ files[req'[r].id].is_public
                THEN req'[r].pc = "dl_access"
                ELSE /\ req'[r].pc = "done"
                     /\ req'[r].status = 403
                     /\ req'[r].error = "Access denied"]_vars
    /\ [][\A r \in Req :
             (mode = "serial" /\ req[r].kind = "download" /\ Ends(r, "download"))
             => req'[r].status = 200]_vars

C6_DeniedAfterMadePrivate ==
    \E r1, r2 \in Req :
        /\ req[r1].kind = "download" /\ req[r1].pc \in {"dl_access", "dl_update", "dl_stream"}
        /\ req[r2].kind = "download" /\ req[r2].pc = "done" /\ req[r2].status = 403
        /\ req[r1].id = req[r2].id /\ req[r1].user = req[r2].user
        /\ Live(files, req[r1].id)
        /\ files[req[r1].id].user_id # req[r1].user
        /\ ~files[req[r1].id].is_public

\* C7: every Domain, File, Website and AnalyticsEvent row belongs to an existing user,
\* so none of a deleted account's rows remains; the DELETE is reached only with the
\* right password and the confirmation 'DELETE', and an account deletion that ends
\* otherwise changes no table.
C7_DeletionCascades ==
    /\ [](/\ OwnersLive(domains, DomainIds) /\ OwnersLive(files, FileIds)
          /\ OwnersLive(websites, WebsiteIds) /\ OwnersLive(analytics, EventIds))
    /\ [](\A r \in Req :
             (req[r].kind = "delete_account" /\ req[r].pc = "acct_delete")
                 => req[r].flag = "DELETE" /\ req[r].name = FreeUser.password_hash)
    /\ [][\A r \in Req :
             Ends(r, "delete_account")
             => IF req'[r].status = 200
                THEN ~Live(users', req'[r].user)
                ELSE /\ req'[r].status \in {400, 404}
                     /\ Tables' = Tables]_vars

C7_AccountGoneWithRows ==
    \E r \in Req :
        /\ req[r].kind = "delete_account" /\ req[r].pc = "done"
        /\ req[r].status = 200 /\ req[r].wrote
        /\ ~Live(users, req[r].user)
        /\ \E d \in DomainIds : domains[d] = Gone
        /\ \E f \in FileIds : files[f] = Gone
        /\ \E w \in WebsiteIds : websites[w] = Gone
        /\ \E e \in EventIds : analytics[e] = Gone

\* C8: a valid register by a user whose domain count is >= domain_quota is answered
\* 'Domain quota exceeded' and creates no row, so with requests one at a time no user
\* owns more Domain rows than domain_quota; overlapping registers can exceed it.
C8_DomainQuota ==
    /\ [](mode = "serial" =>
             \A u \in Users : Live(users, u) => DomainCount(u) <= users[u].domain_quota)
    /\ [](\A r \in Req :
             (req[r].kind = "register" /\ req[r].error = "Domain quota exceeded")
                 => ~req[r].wrote)
    /\ [][\A r \in Req :
             (/\ Starts(r, "register")
              /\ IsFQDN(req'[r].name)
              /\ DomainCount(req'[r].user) >= users[req'[r].user].domain_quota)
             => /\ req'[r].pc = "done"
                /\ req'[r].status = 400
                /\ req'[r].error = "Domain quota exceeded"
                /\ domains' = domains]_vars

C8_OverlappingRegistersExceed ==
    /\ mode = "concurrent"
    /\ \E r1, r2 \in Req :
          /\ r1 # r2
          /\ req[r1].kind = "register" /\ req[r1].pc = "done" /\ req[r1].status = 201
          /\ req[r2].kind = "register" /\ req[r2].pc = "done" /\ req[r2].status = 201
          /\ req[r1].user = req[r2].user
          /\ req[r1].cur = req[r2].cur
          /\ req[r1].name # req[r2].name
          /\ req[r1].cur < users[req[r1].user].domain_quota
          /\ DomainCount(req[r1].user) > users[req[r1].user].domain_quota

\* C9: a register whose duplicate query finds the name in the store, whoever owns it,
\* is answered 'Domain already exists' and changes no Domain row; a register by a user
\* at quota of a name in the store is answered 'Domain quota exceeded' instead.
C9_DuplicateRejected ==
    /\ [][\A r \in Req :
             (/\ req[r].kind = "register" /\ req[r].pc = "reg_dup" /\ req'[r] # req[r]
              /\ NameTaken(req[r].name))
             => /\ req'[r].pc = "done"
                /\ req'[r].status = 400
                /\ req'[r].error = "Domain already exists"
                /\ domains' = domains]_vars
    /\ [][\A r \in Req :
             (/\ Starts(r, "register")
              /\ NameTaken(req'[r].name)
              /\ DomainCount(req'[r].user) >= users[req'[r].user].domain_quota)
             => /\ req'[r].error = "Domain quota exceeded"
                /\ domains' = domains]_vars
    /\ [](\A r \in Req :
             (req[r].kind = "register" /\ req[r].error = "Domain already exists")
                 => ~req[r].wrote)

C9_DuplicateOfAnotherUsersName ==
    \E r1, r2 \in Req :
        /\ req[r1].kind = "register" /\ req[r1].pc = "done"
        /\ req[r1].status = 400 /\ req[r1].error = "Domain already exists"
        /\ \E d \in DomainIds : /\ Live(domains, d)
                                /\ domains[d].domain_name = req[r1].name
                                /\ domains[d].user_id # req[r1].user
        /\ req[r2].kind = "register" /\ req[r2].pc = "done"
        /\ req[r2].status = 400 /\ req[r2].error = "Domain quota exceeded"
        /\ NameTaken(req[r2].name)

\* C10: a verify of an id that names no Domain row of the caller is answered 404
\* 'Domain not found' and changes no Domain row; the status of a Domain row changes
\* only in the update step of a verify made by the row's owner.
C10_VerifyOnlyByOwner ==
    /\ [][\A r \in Req :
             (/\ Starts(r, "verify")
              /\ ~(Live(domains, req'[r].id) /\ domains[req'[r].id].user_id = req'[r].user))
             => /\ req'[r].pc = "done"
                /\ req'[r].status = 404
                /\ req'[r].error = "Domain not found"
                /\ domains' = domains]_vars
    /\ [][\A d \in DomainIds :
             (/\ Live(domains, d) /\ Live(domains', d)
              /\ domains'[d].status # domains[d].status)
             => \E r \in Req : /\ req[r].kind = "verify" /\ req[r].pc = "ver_update"
                               /\ req'[r].pc = "done"
                               /\ req[r].id = d
                               /\ req[r].user = domains[d].user_id]_vars
    /\ [](\A r \in Req :
             (req[r].kind = "verify" /\ req[r].status = 404) => ~req[r].wrote)

C10_NonOwnerRefused ==
    \E r \in Req :
        /\ req[r].kind = "verify" /\ req[r].pc = "done" /\ req[r].status = 404
        /\ Live(domains, req[r].id)
        /\ domains[req[r].id].user_id # req[r].user
        /\ domains[req[r].id].status = "pending"

\* C11: a domain is created (pending, pending); its status and ssl_status change only
\* in the update step of a verify; and once its status is active no step short of
\* deleting the row changes its status, ssl_status or last_verified.
C11_ActiveIsTerminal ==
    [][\A d \in DomainIds :
          /\ (~Live(domains, d) /\ Live(domains', d))
                => domains'[d].status = "pending" /\ domains'[d].ssl_status = "pending"
          /\ (Live(domains, d) /\ Live(domains', d))
                => /\ (\/ domains'[d].status # domains[d].status
                       \/ domains'[d].ssl_status # domains[d].ssl_status)
                      => \E r \in Req : /\ req[r].kind = "verify" /\ req[r].pc = "ver_update"
                                        /\ req[r].id = d /\ req'[r].pc = "done"
                   /\ domains[d].status = "active"
                      => /\ domains'[d].status = domains[d].status
                         /\ domains'[d].ssl_status = domains[d].ssl_status
                         /\ domains'[d].last_verified = domains[d].last_verified]_vars

\* C12: a verify whose check fails is answered 'Domain verification failed' with the
\* dns_records value stored in the row, and writes nothing.
C12_FailedVerifyReturnsStoredRecords ==
    [][\A r \in Req :
          (Ends(r, "verify") /\ req'[r].status = 400)
          => /\ req'[r].error = "Domain verification failed"
             /\ req'[r].dns = domains[req'[r].id].dns_records
             /\ Tables' = Tables]_vars

\* C13: the INSERT of a register creates a row owned by the caller at (pending,
\* pending); its last step stores in that row the descriptor with a CNAME from the name
\* to the service hostname and one from _acme-challenge.<name> to <row id>.verify.
\* renderdns.com and answers 201; with requests one at a time the row is there, pending
\* and owned by the caller at the 201; the DNS-config response carries the stored
\* dns_records, and its instruction records agree with a stored descriptor.
C13_RegisterStoresDescriptor ==
    /\ [][\A r \in Req :
             (req[r].kind = "register" /\ req[r].pc = "reg_insert" /\ req'[r].pc = "reg_dns")
             => /\ ~Live(domains, req'[r].id) /\ Live(domains', req'[r].id)
                /\ domains'[req'[r].id].user_id = req[r].user
                /\ domains'[req'[r].id].domain_name = req[r].name
                /\ domains'[req'[r].id].status = "pending"
                /\ domains'[req'[r].id].ssl_status = "pending"]_vars
    /\ [][\A r \in Req :
             (Ends(r, "register") /\ req'[r].status = 201)
             => /\ Live(domains', req[r].id) =>
                     domains'[req[r].id].dns_records =
                       << [cname |-> [name |-> req[r].name,
                                      value |-> "your-service.onrender.com", ttl |-> 300],
                           verification |->
                               [name |-> <<"_acme-challenge", req[r].name>>,
                                value |-> <<req[r].id, "verify.renderdns.com">>,
                                ttl |-> 300]] >>
                /\ mode = "serial" =>
                     /\ Live(domains', req[r].id)
                     /\ domains'[req[r].id].user_id = req[r].user
                     /\ domains'[req[r].id].status = "pending"
                     /\ domains'[req[r].id].ssl_status = "pending"]_vars
    /\ [][\A r \in Req :
             (Ends(r, "dns_config") /\ req'[r].status = 200)
             => /\ req'[r].dns = domains[req'[r].id].dns_records
                /\ Len(req'[r].dns) = 1 =>
                     /\ req'[r].records[1].name = req'[r].dns[1].cname.name
                     /\ req'[r].records[1].value = req'[r].dns[1].cname.value
                     /\ req'[r].records[2].name = req'[r].dns[1].verification.name
                     /\ req'[r].records[2].value = req'[r].dns[1].verification.value]_vars

C13_RegisteredAndRead ==
    \E r1, r2 \in Req :
        /\ req[r1].kind = "register" /\ req[r1].pc = "done" /\ req[r1].status = 201
        /\ Live(domains, req[r1].id)
        /\ domains[req[r1].id].status = "pending"
        /\ Len(domains[req[r1].id].dns_records) = 1
        /\ req[r2].kind = "dns_config" /\ req[r2].pc = "done" /\ req[r2].status = 200
        /\ req[r2].id = req[r1].id
        /\ req[r2].dns = domains[req[r1].id].dns_records

\* paths holding bytes that no File row and no running request refers to
Orphans == disk \ (LivePaths \cup {req[q].path : q \in Req})

\* C14: an upload whose INSERT fails is answered 500 'Failed to upload file' and adds no
\* File row; its bytes are unlinked unless the cleanup itself failed, which is logged and
\* leaves the answer the same; bytes without a File row appear only by a failed cleanup.
C14_FailedInsertCleansUp ==
    /\ [][\A r \in Req :
             (/\ req[r].kind = "upload" /\ req[r].pc = "up_insert"
              /\ Ends(r, "upload") /\ req'[r].status # 201)
             => /\ req'[r].status = 500
                /\ req'[r].error = "Failed to upload file"
                /\ files' = files
                /\ req'[r].flag # "cleanup failed" => req[r].path \notin disk']_vars
    /\ [][\/ Orphans' \subseteq Orphans
          \/ \E r \in Req : Ends(r, "upload") /\ req'[r].flag = "cleanup failed"]_vars

C14_InsertFailedBytesGone ==
    \E r \in Req :
        /\ req[r].kind = "upload" /\ req[r].pc = "done"
        /\ req[r].status = 500 /\ req[r].error = "Failed to upload file"
        /\ req[r].flag # "cleanup failed"
        /\ disk = {}
        /\ \A f \in FileIds : ~Live(files, f)

\* C15: a delete by the owner of an existing file goes on to the unlink and then to the
\* DELETE whatever the unlink did; it ends 200 with the File row gone, and the owner's
\* used storage no longer counts the row it removed.
C15_DeleteRemovesRow ==
    /\ [][\A r \in Req :
             (/\ Starts(r, "delete_file")
              /\ Live(files, req'[r].id)
              /\ files[req'[r].id].user_id = req'[r].user)
             => req'[r].pc = "del_unlink"]_vars
    /\ [][\A r \in Req :
             (req[r].kind = "delete_file" /\ req[r].pc = "del_unlink" /\ req'[r] # req[r])
             => req'[r].pc = "del_row" /\ files' = files]_vars
    /\ [][\A r \in Req :
             (req[r].kind = "delete_file" /\ req[r].pc = "del_row" /\ req'[r] # req[r])
             => /\ req'[r].pc = "done" /\ req'[r].status = 200
                /\ ~Live(files', req[r].id)
                /\ StorageUsed(req[r].user)' =
                      StorageUsed(req[r].user)
                        - (IF Live(files, req[r].id) THEN files[req[r].id].file_size ELSE 0)]_vars

C15_RowGoneBytesKept ==
    \E r \in Req :
        /\ req[r].kind = "delete_file" /\ req[r].pc = "done" /\ req[r].status = 200
        /\ files[req[r].id] = Gone
        /\ StorageUsed(req[r].user) = 0
        /\ Orphans # {}

\* C16: a download that passed the access check and finds no bytes at the row's path is
\* answered 404 'File not found on disk'; the step changes no File row (download_count
\* included) and nothing on disk.
C16_MissingBytesSurfaced ==
    [][\A r \in Req :
          (/\ req[r].kind = "download" /\ req[r].pc = "dl_access" /\ req'[r] # req[r]
           /\ req[r].path \notin disk)
          => /\ req'[r].pc = "done"
             /\ req'[r].status = 404
             /\ req'[r].error = "File not found on disk"
             /\ files' = files
             /\ disk' = disk]_vars

C16_RowKeptAfterMissingBytes ==
    \E r \in Req :
        /\ req[r].kind = "download" /\ req[r].pc = "done"
        /\ req[r].status = 404 /\ req[r].error = "File not found on disk"
        /\ Live(files, req[r].id)
        /\ files[req[r].id].file_path \notin disk
        /\ files[req[r].id].download_count = 0

\* C17: an upload whose MIME type is neither on the allow-list nor text/* is answered
\* 400 with nothing written: no bytes on disk, no File row.
C17_BadTypeIs400 ==
    [][\A r \in Req :
          (/\ Starts(r, "upload")
           /\ req'[r].mime \notin {"none", "image/png", "text/x-any"})
          => /\ req'[r].pc = "done"
             /\ req'[r].status = 400
             /\ disk' = disk
             /\ files' = files]_vars

\* C18: an upload whose size alone exceeds the user's storage_quota is answered with the
\* storage-quota error and records no File row and keeps no bytes.
C18_OversizeUploadHitsQuota ==
    \A r \in Req :
        (/\ req[r].kind = "upload" /\ req[r].pc = "done"
         /\ ~Fits(req[r].size, FreeUser.storage_quota))
        => /\ req[r].status = 400
           /\ req[r].error = "Storage quota exceeded"
           /\ ~req[r].wrote
           /\ Orphans = {}

IsUsageReport(r) ==
    /\ req[r].kind \in {"file_stats", "user_stats"}
    /\ req[r].pc = "done" /\ req[r].status = 200

\* C19: a usage report answers used = the sum of file_size it read, available = quota -
\* used (negative when used exceeds the quota) and percentage = round(used / quota * 100);
\* the user-stats report, and the file-stats report when no other request overlaps it,
\* read the File rows and the quota as they are; the two reports of one user carry the
\* same figures whenever they read the same usage and quota.
C19_UsageReport ==
    /\ [](\A r, q \in Req :
            (/\ IsUsageReport(r) /\ IsUsageReport(q)
             /\ req[r].user = req[q].user
             /\ req[r].report[1].used = req[q].report[1].used
             /\ req[r].report[1].quota = req[q].report[1].quota)
            => req[r].report = req[q].report)
    /\ [][\A r \in Req :
            (/\ Ends(r, "file_stats") \/ Ends(r, "user_stats")
             /\ req'[r].status = 200)
            => LET rep == req'[r].report[1]
                   quota == JsNumber(users[req'[r].user].storage_quota)
               IN  /\ rep.quota = users[req'[r].user].storage_quota
                   /\ rep.available = quota - rep.used
                   /\ rep.percentage = RoundedPercent(rep.used, quota)
                   /\ Ends(r, "file_stats") => rep.used = JsNumber(req[r].cur)
                   /\ (mode = "serial" \/ Ends(r, "user_stats"))
                      => rep.used = StorageUsed(req'[r].user)]_vars

\* both reports were answered over the same rows, which exceed the quota
C19_OverQuotaReported ==
    /\ StorageUsed("u1") > DEFAULT_STORAGE_QUOTA
    /\ \E r, q \in Req :
          /\ IsUsageReport(r) /\ req[r].kind = "file_stats"
          /\ IsUsageReport(q) /\ req[q].kind = "user_stats"
          /\ req[r].report[1].available < 0
          /\ req[q].report[1].percentage > 100
          /\ req[q].report[1].used = StorageUsed("u1")

\* C20: the analytics report's totalPageViews and totalErrors are the numbers of the
\* caller's page_view and error events within the period, each as of the statement that
\* read it (the page views first, the errors last), and every day row of a domain's
\* error rates carries the counts of that day's events and errors of the domain within
\* the period and errorPercentage = round(errors / total_requests * 100), 0 when
\* total_requests is 0.
C20_AnalyticsTotals ==
    [][\A r \in Req :
          LET u == req'[r].user
              since == clock - PeriodTicks(req'[r].name)
              Recent == {e \in EventIds : Live(analytics, e)
                                           /\ analytics[e].created_at >= since}
              Of(type) == {e \in Recent : /\ analytics[e].user_id = u
                                          /\ analytics[e].event_type = type}
              On(S, d) == {e \in S : analytics[e].created_at \div TicksPerDay = d}
              rep == req'[r].report[1]
          IN  /\ Starts(r, "analytics")
                 => /\ \A d \in 0..MaxTicks :
                          d \in DOMAIN rep.pageViews <=> On(Of("page_view"), d) # {}
                    /\ \A d \in DOMAIN rep.pageViews :
                          JsNumber(rep.pageViews[d]) = Cardinality(On(Of("page_view"), d))
              /\ (Ends(r, "analytics") /\ req'[r].status = 200)
                 => /\ rep.pageViews = req[r].report[1].pageViews
                    /\ rep.totalPageViews =
                         Cardinality({p \in (DOMAIN rep.pageViews) \X (1..MaxEvents) :
                                         p[2] <= JsNumber(rep.pageViews[p[1]])})
                    /\ rep.totalErrors = Cardinality(Of("error"))
              /\ (Ends(r, "domain_stats") /\ req'[r].status = 200)
                 => LET Hits == {e \in Recent : analytics[e].domain_id = req'[r].id}
                        Days == {analytics[e].created_at \div TicksPerDay : e \in Hits}
                    IN  /\ DOMAIN rep.errorRates = Days
                        /\ \A d \in Days :
                              LET row == rep.errorRates[d]
                                  total == Cardinality(On(Hits, d))
                                  errors == Cardinality(
                                      {e \in On(Hits, d) :
                                          analytics[e].event_type = "error"})
                              IN  /\ JsNumber(row.total_requests) = total
                                  /\ JsNumber(row.errors) = errors
                                  /\ row.errorPercentage =
                                       IF total = 0 THEN 0
                                       ELSE RoundedPercent(errors, total)]_vars

\* three page views and one error of one day were reported as 3, 1 and 25 percent
C20_ThreeViewsOneError ==
    \E r, q \in Req, d \in 0..MaxTicks :
        /\ req[r].kind = "analytics" /\ req[r].pc = "done" /\ req[r].status = 200
        /\ req[r].name = "24h"
        /\ req[r].report[1].totalPageViews = 3
        /\ req[r].report[1].totalErrors = 1
        /\ req[q].kind = "domain_stats" /\ req[q].pc = "done" /\ req[q].status = 200
        /\ d \in DOMAIN req[q].report[1].errorRates
        /\ req[q].report[1].errorRates[d].total_requests = PgText(4)
        /\ req[q].report[1].errorRates[d].errorPercentage = 25

\* C21: a Log request with a non-empty eventType is answered 200 and appends exactly one
\* AnalyticsEvent row owned by the caller, whatever its domainId names; one without
\* eventType is answered 400 and appends nothing; no step changes an existing
\* AnalyticsEvent row other than by removing it.
C21_LogAlwaysSucceeds ==
    /\ [][\A r \in Req :
             Starts(r, "log_event")
             => IF req'[r].name = ""
                THEN req'[r].status = 400 /\ analytics' = analytics
                ELSE /\ req'[r].status = 200
                     /\ \E e \in EventIds :
                           /\ ~Live(analytics, e) /\ Live(analytics', e)
                           /\ analytics'[e].user_id = req'[r].user
                           /\ \A f \in EventIds \ {e} : analytics'[f] = analytics[f]]_vars
    /\ [][\A e \in EventIds :
             Live(analytics, e) => analytics'[e] \in {analytics[e], Gone}]_vars

\* C27: the error rates and totals a domain's owner reads count only the events the owner
\* logged about the domain.
C27_StatsCountOwnerEvents ==
    [][\A r \in Req :
          (Ends(r, "domain_stats") /\ req'[r].status = 200 /\ Live(domains, req'[r].id))
          => LET owner == domains[req'[r].id].user_id
                 Own == {e \in EventIds :
                            /\ Live(analytics, e)
                            /\ analytics[e].created_at >= clock - PeriodTicks(req'[r].name)
                            /\ analytics[e].domain_id = req'[r].id
                            /\ analytics[e].user_id = owner}
                 rep == req'[r].report[1]
             IN  /\ rep.totalErrors =
                      Cardinality({e \in Own : analytics[e].event_type = "error"})
                 /\ \A d \in DOMAIN rep.errorRates :
                       JsNumber(rep.errorRates[d].total_requests) =
                         Cardinality({e \in Own :
                                         analytics[e].created_at \div TicksPerDay = d})]_vars

\* the JSON body of r's response has an error member; "errors[]" stands for the body
\* { errors: errors.array() }, which has none
BodyHasError(r) == req[r].error \notin {"none", "errors[]"}

\* C22: every failing response (status 400 and above) is a body with an error member.
C22_FailuresCarryError ==
    \A r \in Req :
        (req[r].pc = "done" /\ req[r].status >= 400) => BodyHasError(r)

\* the step is taken by a request of user u
StepOf(u) == \E r \in Req : req'[r] # req[r] /\ u \in {req[r].user, req'[r].user}

\* C23: an Update or Delete of a file or a domain sent by a user who does not own the
\* row, if not refused as malformed (400), is answered 404, and in either case leaves
\* every File row, every Domain row and the bytes on disk as they were, also for a public
\* file; whatever changes or removes a Domain row is a step of a request of its owner.
C23_OwnerScoped ==
    /\ [][\A r \in Req :
             /\ (/\ Ends(r, "update_file") \/ Starts(r, "delete_file")
                 /\ Live(files, req'[r].id)
                 /\ files[req'[r].id].user_id # req'[r].user)
                => /\ req'[r].pc = "done"
                   /\ req'[r].status \in {400, 404}
                   /\ Ends(r, "delete_file") => req'[r].status = 404
                   /\ files' = files /\ disk' = disk
             /\ (/\ Ends(r, "update_domain") \/ Ends(r, "delete_domain")
                 /\ Live(domains, req'[r].id)
                 /\ domains[req'[r].id].user_id # req'[r].user)
                => /\ req'[r].status \in {400, 404}
                   /\ Ends(r, "delete_domain") => req'[r].status = 404
                   /\ domains' = domains]_vars
    /\ [][\A d \in DomainIds :
             (Live(domains, d) /\ domains'[d] # domains[d])
             => StepOf(domains[d].user_id)]_vars
    /\ [][\A f \in FileIds :
             (Live(files, f) /\ files'[f] # files[f]) => StepOf(files[f].user_id)]_vars

\* u2 was answered 404 for an update and for a delete of u1's public file, which is
\* still there with its bytes, and u1's domain is there
C23_NonOwnerGot404 ==
    \E r, q \in Req :
        /\ req[r].kind = "update_file" /\ req[r].user = "u2" /\ req[r].status = 404
        /\ req[q].kind = "delete_file" /\ req[q].user = "u2" /\ req[q].status = 404
        /\ Live(files, 1) /\ files[1].is_public /\ files[1].file_path \in disk
        /\ Live(domains, 1)

\* the fixed triple of a plan tier
TierTriple(p) ==
    CASE p = "free" -> <<"free", <<1, 0, 7, 3, 7, 4, 1, 8, 2, 4>>, 2>>
      [] p = "pro" -> <<"pro", <<1, 0, 7, 3, 7, 4, 1, 8, 2, 4, 0>>, 10>>
      [] p = "enterprise" -> <<"enterprise", <<1, 0, 7, 3, 7, 4, 1, 8, 2, 4, 0, 0>>, 100>>
UserTriple(row) == <<row.plan_type, row.storage_quota, row.domain_quota>>

\* C24: every user's (plan_type, storage_quota, domain_quota) is one of free =
\* (1073741824, 2), pro = (10737418240, 10), enterprise = (107374182400, 100); a plan
\* request for 'pro' or 'enterprise' sets the three together, any other is answered 400
\* and leaves the users as they were.
C24_TierTriples ==
    /\ [](\A u \in Users :
            Live(users, u)
            => /\ users[u].plan_type \in {"free", "pro", "enterprise"}
               /\ UserTriple(users[u]) = TierTriple(users[u].plan_type))
    /\ [][\A r \in Req :
             Starts(r, "upgrade")
             => IF req'[r].name \in {"pro", "enterprise"}
                THEN /\ req'[r].status = 200
                     /\ UserTriple(users'[req'[r].user]) = TierTriple(req'[r].name)
                     /\ \A v \in Users \ {req'[r].user} : users'[v] = users[v]
                ELSE req'[r].status = 400 /\ users' = users]_vars

\* u1 is on the enterprise plan after a refused request for 'free'
C24_EnterpriseAfterRefusal ==
    /\ users["u1"].plan_type = "enterprise"
    /\ users["u1"].domain_quota = 100
    /\ \E r \in Req : /\ req[r].kind = "upgrade" /\ req[r].user = "u1"
                       /\ req[r].name = "free" /\ req[r].status = 400

\* C28: no plan request lowers a user's storage_quota or domain_quota, and with requests
\* one at a time the user's stored bytes stay within storage_quota and the domain count
\* within domain_quota.
C28_PlanNeverLowersQuota ==
    /\ [](\A u \in Users :
             Live(users, u)
             => /\ ~NumGreater(PgText(StorageUsed(u)), users[u].storage_quota)
                /\ DomainCount(u) <= users[u].domain_quota)
    /\ [][\A u \in Users :
             (Live(users, u) /\ Live(users', u))
             => /\ ~NumGreater(users[u].storage_quota, users'[u].storage_quota)
                /\ users'[u].domain_quota >= users[u].domain_quota]_vars

\* C25: an upload never receives a stored path that holds bytes, that a File row refers
\* to or that another request is writing, and no two File rows refer to the same path.
C25_StoredNamesDistinct ==
    /\ [](\A f, g \in FileIds :
            (f # g /\ Live(files, f) /\ Live(files, g))
            => files[f].file_path # files[g].file_path)
    /\ [][\A r \in Req :
             (Starts(r, "upload") /\ req'[r].path # <<>>)
             => /\ req'[r].path \notin disk
                /\ req'[r].path \notin LivePaths
                /\ \A q \in Req \ {r} : req[q].path # req'[r].path]_vars

\* C26: the static route delivers the bytes of a File only to its owner unless the File
\* is public at that moment.
C26_PrivateBytesStayPrivate ==
    [][\A r \in Req :
          (/\ Starts(r, "static") /\ req'[r].status = 200
           /\ req'[r].id # 0)
          => \/ files[req'[r].id].user_id = req'[r].user
             \/ files[req'[r].id].is_public]_vars

\* C29: whenever no request is in flight, every path that holds bytes is the file_path of
\* exactly one File row.
C29_NoOrphanedBytes ==
    (\A r \in Req : ~InFlight(r))
    => \A p \in disk :
          Cardinality({f \in FileIds : Live(files, f) /\ files[f].file_path = p}) = 1

\* C30: every domain's auto_renew is true or false, and an Update that omits autoRenew
\* leaves the stored value as it was.
C30_AutoRenewIsBoolean ==
    /\ [](\A d \in DomainIds :
            Live(domains, d) => domains[d].auto_renew \in {"true", "false"})
    /\ [][\A r \in Req :
             (Starts(r, "update_domain") /\ req'[r].flag = "absent"
              /\ Live(domains, req'[r].id))
             => domains'[req'[r].id].auto_renew = domains[req'[r].id].auto_renew]_vars

====
